---- MODULE Spec2Model ----
(***************************************************************************)
(* PrintJob (src/browser/printing/print_job.cc): the coordinator of one    *)
(* print job.  It lives on the UI message loop, owns a PrintJobWorker      *)
(* thread, listens to its own NOTIFICATION_PRINT_JOB_EVENT notifications   *)
(* and shuts the worker down through the worker pool.                      *)
(*                                                                         *)
(* Every method of PrintJob is an operator from a world record to a world  *)
(* record, so that the synchronous calls of the code (Cancel -> Notify ->  *)
(* Observe -> Stop -> ...) nest in the model as they nest in the code.  An *)
(* action runs one task of a thread to completion and commits the world.   *)
(***************************************************************************)
EXTENDS Integers, Sequences, FiniteSets, TLC

VARIABLES
    os_win,   \* the build: TRUE when OS_WIN is defined
    job,      \* the PrintJob object
    worker,   \* the PrintJobWorker (a base::Thread) and its message loop
    pool,     \* base::WorkerPool: PrintJobWorker::Stop operations not yet run
    loop,     \* the UI message loop: queue, delayed Quit tasks, nested runs
    bus,      \* the notification service: what has been published
    hist      \* history of the run, read by the properties only

vars == <<os_win, job, worker, pool, loop, bus, hist>>

\* Calls the client of the job makes in one run (StartPrinting, Stop, Cancel,
\* FlushJob).
MaxCalls == 4
\* Nested FlushJob runs of the UI message loop.
MaxFlushDepth == 2

NoDocument == "none"
NewDocument == "doc"

\* The job-event types the model publishes (JobEventDetails::Type).
EventTypes == {"FAILED", "DOC_DONE", "NEW_DOC", "JOB_DONE"}

\* What a handler meets while it runs:
\*   race    - the read of worker_->message_loop() (counted from 1 within the
\*             handler) before which a PrintJobWorker::Stop already submitted
\*             to the pool terminates the worker thread; 0 for none
\*   release - an outside observer of a notification drops its reference
\*   reenter - an outside observer of FAILED calls Cancel() again
\*   drain   - a window message dispatched by the OS_WIN wait loop calls
\*             Cancel() again
MaxReads == 4
NoInput == [race |-> 0, release |-> FALSE, reenter |-> FALSE, drain |-> FALSE]
Inputs ==
    {in \in [race : 0..MaxReads, release : BOOLEAN, reenter : BOOLEAN,
             drain : BOOLEAN] : in.drain => os_win}

\* StartPrinting() reads the worker's loop once and broadcasts NEW_DOC, which
\* no observer answers.
StartInputs ==
    {in \in Inputs : in.race <= 1 /\ ~in.release /\ ~in.reenter /\ ~in.drain}

\* What a queued task of the UI loop can meet: HoldUntilStopIsCalled and the
\* delivery of DOC_DONE call nothing that reads the worker or notifies.
TaskInputs(task) ==
    IF \/ task.kind = "HoldUntilStopIsCalled"
       \/ task.kind = "Notify" /\ task.type = "DOC_DONE"
    THEN {NoInput}
    ELSE Inputs

\* The world a handler works on; rd counts its reads of the worker's loop.
World ==
    [os_win |-> os_win, job |-> job, worker |-> worker, pool |-> pool,
     loop |-> loop, bus |-> bus,
     hist |-> [hist EXCEPT !.reentered = FALSE], rd |-> 0]

Commit(w) ==
    /\ os_win' = w.os_win
    /\ job' = w.job
    /\ worker' = w.worker
    /\ pool' = w.pool
    /\ loop' = w.loop
    /\ bus' = w.bus
    /\ hist' = w.hist

----------------------------------------------------------------------------
(* Reference counting (base::RefCountedThreadSafe) and destruction.        *)

\* PrintJob::~PrintJob, run on thread th.  The DCHECKs are recorded, the
\* members are destroyed: both weak pointer factories invalidate, the
\* registrar removes every registration, the worker is deleted (its thread
\* is joined).
Destructor(w, th) ==
    [w EXCEPT
        !.job.destroyed = TRUE,
        !.job.registered = FALSE,
        !.hist.dtor = [ran |-> TRUE,
                       pending |-> w.job.is_job_pending_,
                       canceling |-> w.job.is_canceling_,
                       stopped |-> w.job.is_stopped_,
                       alive |-> w.job.worker_set /\ w.worker.alive,
                       outstanding |-> Len(w.worker.queue) + Len(w.loop.queue) + w.pool,
                       thread |-> th],
        !.loop.timers = [valid |-> 0, dead |-> w.loop.timers.valid + w.loop.timers.dead],
        !.worker.alive = FALSE,
        !.worker.printing = FALSE,
        !.worker.queue = <<>>]

AddRef(w) == [w EXCEPT !.job.refs = @ + 1]

\* scoped_refptr release on thread th; the last one destroys the job.
Release(w, th) ==
    IF w.job.refs = 1
    THEN Destructor([w EXCEPT !.job.refs = 0], th)
    ELSE [w EXCEPT !.job.refs = @ - 1]

\* An outside holder (the print view manager) drops its reference.
ReleaseExternal(w) ==
    IF w.job.ext > 0
    THEN Release([w EXCEPT !.job.ext = @ - 1], "ui")
    ELSE w

----------------------------------------------------------------------------
(* The worker thread as PrintJob sees it.                                  *)

\* The worker thread ends (base::Thread::ThreadMain returns): message_loop()
\* is NULL from now on and the tasks still queued are deleted unrun, each
\* dropping the reference it holds.
RECURSIVE ReleaseN(_, _, _)
ReleaseN(w, n, th) ==
    IF n = 0 THEN w ELSE ReleaseN(Release(w, th), n - 1, th)

\* The tasks of the worker's queue that hold a reference to the job.
HeldByQueue(q) == Cardinality({i \in 1..Len(q) : q[i].ref})

TerminateWorker(w) ==
    ReleaseN([w EXCEPT !.worker.alive = FALSE,
                       !.worker.printing = FALSE,
                       !.worker.queue = <<>>],
             HeldByQueue(w.worker.queue), "worker")

\* One read of worker_->message_loop().  The read races with a
\* PrintJobWorker::Stop running in the pool: once one is submitted the
\* thread may be gone at any read.
ReadLoop(w, in) ==
    IF in.race = w.rd + 1 /\ w.worker.alive /\ w.pool > 0
    THEN TerminateWorker([w EXCEPT !.rd = @ + 1])
    ELSE [w EXCEPT !.rd = @ + 1]

\* A task bound to base::Unretained(this): it holds no reference.
PostToWorker_Unretained(w, kind) ==
    [w EXCEPT !.worker.queue =
        Append(@, [kind |-> kind, doc |-> w.job.document_, ref |-> FALSE])]

\* worker_->message_loop()->PostTask(HoldRefCallback(make_scoped_refptr(this),
\* ...)): the task holds a reference to the job until it has run.
PostToWorker(w, kind) ==
    AddRef([w EXCEPT !.worker.queue =
                Append(@, [kind |-> kind, doc |-> w.job.document_,
                           ref |-> TRUE])])

\* MessageLoop::current()->PostTask on the UI loop, the task holding a
\* reference to the job.
PostToLoop(w, task) ==
    AddRef([w EXCEPT !.loop.queue = Append(@, task)])

----------------------------------------------------------------------------
(* The notification registrar, the quit factory and the UI loop.           *)

\* registrar_.Remove: removing a registration that is not there is a
\* NOTREACHED in the registrar and changes nothing.
RegistrarRemove(w) ==
    IF w.job.registered
    THEN [w EXCEPT !.job.registered = FALSE]
    ELSE [w EXCEPT !.hist.bad_remove = TRUE]

\* quit_factory_.HasWeakPtrs(): a delayed Quit task bound to a still valid
\* weak pointer is outstanding.
HasWeakPtrs(w) == w.loop.timers.valid > 0

\* quit_factory_.InvalidateWeakPtrs()
InvalidateWeakPtrs(w) ==
    [w EXCEPT !.loop.timers =
        [valid |-> 0, dead |-> w.loop.timers.valid + w.loop.timers.dead]]

\* PrintJob::Quit: MessageLoop::current()->Quit() ends the innermost run of
\* the UI loop once the current task returns.
Quit(w, by) ==
    [w EXCEPT !.loop.quit = TRUE,
              !.loop.quit_by = by,
              !.hist.main_quit = @ \/ (w.loop.depth = 0)]

----------------------------------------------------------------------------
(* PrintJob's methods.                                                     *)

RECURSIVE Cancel(_, _)

\* What a nested call meets: no further re-entry.
Nested(in) == [in EXCEPT !.reenter = FALSE, !.drain = FALSE]

\* worker_->message_loop(), read where the code first tests worker_.get().
ReadWorkerLoop(w, in) ==
    IF w.job.worker_set THEN ReadLoop(w, in) ELSE w

\* UpdatePrintedDocument() taking the settings back whatever the document.
SetDocument_Restore(w, new_document) ==
    [w EXCEPT !.job.document_ = new_document, !.job.settings_ = "owner"]

\* document_ = new_document; settings_ = document_->settings()
SetDocument(w, new_document) ==
    [w EXCEPT !.job.document_ = new_document,
              !.job.settings_ = IF new_document # NoDocument THEN "owner" ELSE @]

\* UpdatePrintedDocument() without the post to the worker.
SyncDocument_Never(w) == w

\* "Sync the document with the worker": DCHECK(!is_job_pending_), then
\* PrintJobWorker::OnDocumentChanged is posted to the worker's loop.
SyncDocument(w) ==
    IF w.job.worker_set /\ w.worker.alive
    THEN PostToWorker(
             [w EXCEPT !.hist.update_while_pending = @ \/ w.job.is_job_pending_],
             "OnDocumentChanged")
    ELSE w

\* UpdatePrintedDocument() without "if (document_.get() == new_document)
\* return;".
UpdatePrintedDocument_Always(w, new_document, in) ==
    SyncDocument(ReadWorkerLoop(SetDocument(w, new_document), in))

\* PrintJob::UpdatePrintedDocument
UpdatePrintedDocument(w, new_document, in) ==
    IF w.job.document_ = new_document
    THEN w
    ELSE SyncDocument(ReadWorkerLoop(SetDocument(w, new_document), in))

\* The OS_WIN wait loop of ControlledWorkerShutdown dispatches the window
\* messages that arrive; one of them may call Cancel().
DispatchMessages(w, in) ==
    IF in.drain THEN Cancel(w, Nested(in)) ELSE w

\* worker_->StopSoon() and the wait on thread_handle: the thread has quit.
WaitForThread(w) ==
    IF w.worker.alive THEN TerminateWorker(w) ELSE w

\* is_stopping_ = true; WorkerPool::PostTaskAndReply(PrintJobWorker::Stop,
\* HoldUntilStopIsCalled(scoped_refptr(this))).
PostStopAndReply(w) ==
    AddRef([w EXCEPT !.job.is_stopping_ = TRUE,
                     !.pool = @ + 1,
                     !.hist.submits = @ + 1])

\* PrintJob::ControlledWorkerShutdown
ControlledWorkerShutdown(w, in) ==
    IF w.os_win
    THEN PostStopAndReply(WaitForThread(DispatchMessages(w, in)))
    ELSE PostStopAndReply(w)

\* Stop(): "if (quit_factory_.HasWeakPtrs()) { Quit(); InvalidateWeakPtrs(); }"
QuitNestedLoop(w) ==
    IF HasWeakPtrs(w) THEN InvalidateWeakPtrs(Quit(w, "stop")) ELSE w

\* Stop() without "is_job_pending_ = false".
StopWorker_KeepPending(w, in) ==
    IF w.worker.alive
    THEN RegistrarRemove(ControlledWorkerShutdown(w, in))
    ELSE w

\* Stop(): "if (worker_loop) { ControlledWorkerShutdown();
\* is_job_pending_ = false; registrar_.Remove(...); }"
StopWorker(w, in) ==
    IF w.worker.alive
    THEN RegistrarRemove([ControlledWorkerShutdown(w, in)
                              EXCEPT !.job.is_job_pending_ = FALSE])
    ELSE w

\* Stop() without "UpdatePrintedDocument(NULL)".
Stop_NoFlush(w, in) ==
    Release(StopWorker(ReadLoop(AddRef(QuitNestedLoop(w)), in), in), "ui")

\* PrintJob::Stop
Stop(w, in) ==
    Release(
        UpdatePrintedDocument(
            StopWorker(ReadLoop(AddRef(QuitNestedLoop(w)), in), in),
            NoDocument, in),
        "ui")

\* OnNotifyPrintJobEvent() running Stop() and publishing JOB_DONE inside the
\* delivery of DOC_DONE.
OnNotifyPrintJobEvent_Inline(w, type, in) ==
    CASE type = "FAILED" ->
            Stop([w EXCEPT !.job.settings_ = "cleared"], in)
      [] type = "DOC_DONE" ->
            [Stop(w, in) EXCEPT !.bus["JOB_DONE"] = @ + 1]
      [] OTHER -> w

\* PrintJob::OnNotifyPrintJobEvent
OnNotifyPrintJobEvent(w, type, in) ==
    CASE type = "FAILED" ->
            Stop([w EXCEPT !.job.settings_ = "cleared"], in)
      [] type = "DOC_DONE" ->
            PostToLoop(w, [kind |-> "OnDocumentDone", type |-> type])
      [] OTHER -> w

\* The notification service records the publication.
Publish(w, type) ==
    [w EXCEPT
        !.bus[type] = @ + 1,
        !.hist.job_done_after_cancel =
            @ \/ (type = "JOB_DONE" /\ w.hist.canceled),
        !.hist.job_done_doc =
            IF type = "JOB_DONE" THEN w.job.document_ ELSE @,
        !.hist.new_doc_seen =
            IF type = "NEW_DOC"
            THEN [pending |-> w.job.is_job_pending_,
                  posted |-> \E i \in 1..Len(w.worker.queue) :
                                w.worker.queue[i].kind = "StartPrinting"]
            ELSE @]

\* PrintJob::Observe: the job receives its own notifications while it is
\* registered.
Observe(w, type, in) ==
    IF w.job.registered THEN OnNotifyPrintJobEvent(w, type, in) ELSE w

\* An outside observer answers FAILED with Cancel().
ObserverCancel(w, type, in) ==
    IF type = "FAILED" /\ in.reenter THEN Cancel(w, Nested(in)) ELSE w

\* An outside observer answers FAILED or JOB_DONE by dropping its reference.
ObserverRelease(w, type, in) ==
    IF type \in {"FAILED", "JOB_DONE"} /\ in.release
    THEN ReleaseExternal(w)
    ELSE w

\* NotificationService::Notify(NOTIFICATION_PRINT_JOB_EVENT, Source(this),
\* details): delivered at once to the job and to the outside observers.
Notify(w, type, in) ==
    ObserverRelease(
        ObserverCancel(Observe(Publish(w, type), type, in), type, in),
        type, in)

\* Cancel(): "is_canceling_ = true; scoped_refptr<PrintJob> handle(this);"
BeginCancel(w) ==
    AddRef([w EXCEPT !.job.is_canceling_ = TRUE, !.hist.cancels = @ + 1])

\* Cancel(): "if (worker_loop) worker_->Cancel();"
CancelWorker(w) ==
    IF w.job.worker_set /\ w.worker.alive
    THEN [w EXCEPT !.worker.cancel_calls = @ + 1]
    ELSE w

\* Cancel() without "is_canceling_ = false".
EndCancel_NoClear(w) == Release(w, "ui")

\* Cancel(): "is_canceling_ = false;" and the end of handle's scope.
EndCancel(w) ==
    Release([w EXCEPT !.job.is_canceling_ = FALSE], "ui")

\* Cancel() without its test of is_canceling_.
AlreadyCanceling_Never(w) == FALSE

\* Cancel(): "if (is_canceling_) return;"
AlreadyCanceling(w) == w.job.is_canceling_

\* Cancel() without "scoped_refptr<PrintJob> handle(this)".
Cancel_NoHandle(w, in) ==
    IF AlreadyCanceling(w)
    THEN [w EXCEPT !.hist.reentered = TRUE]
    ELSE [Stop(Notify(CancelWorker(
                          ReadWorkerLoop(
                              [w EXCEPT !.job.is_canceling_ = TRUE,
                                        !.hist.cancels = @ + 1], in)),
                      "FAILED", in),
               in)
          EXCEPT !.job.is_canceling_ = FALSE]

\* PrintJob::Cancel
Cancel(w, in) ==
    IF AlreadyCanceling(w)
    THEN [w EXCEPT !.hist.reentered = TRUE]
    ELSE EndCancel(
             Stop(Notify(CancelWorker(ReadWorkerLoop(BeginCancel(w), in)),
                         "FAILED", in),
                  in))

\* PrintJob::Initialize
Initialize(w, in) ==
    [UpdatePrintedDocument(
         [w EXCEPT !.job.source_ = TRUE,
                   !.job.worker_set = TRUE,
                   !.job.settings_ = "owner"],
         NewDocument, in)
     EXCEPT !.job.registered = TRUE]

\* StartPrinting() broadcasting NEW_DOC before it sets is_job_pending_.
BeginPrinting_NotifyFirst(w, in) ==
    IF ~w.worker.alive \/ w.job.is_job_pending_
    THEN w
    ELSE [PostToWorker(Notify(w, "NEW_DOC", in), "StartPrinting")
             EXCEPT !.job.is_job_pending_ = TRUE]

\* StartPrinting() without "if (!worker_->message_loop() || is_job_pending_)
\* return;".
BeginPrinting_NoGuard(w, in) ==
    Notify([PostToWorker(w, "StartPrinting")
               EXCEPT !.job.is_job_pending_ = TRUE],
           "NEW_DOC", in)

\* StartPrinting(): the task for the worker, the flag, the broadcast.
BeginPrinting(w, in) ==
    IF ~w.worker.alive \/ w.job.is_job_pending_
    THEN w
    ELSE Notify([PostToWorker(w, "StartPrinting")
                    EXCEPT !.job.is_job_pending_ = TRUE],
                "NEW_DOC", in)

\* PrintJob::StartPrinting
StartPrinting(w, in) == BeginPrinting(ReadLoop(w, in), in)

\* PrintJob::OnDocumentDone
OnDocumentDone(w, in) ==
    Release(Notify(Stop(AddRef(w), in), "JOB_DONE", in), "ui")

\* PrintJob::HoldUntilStopIsCalled
HoldUntilStopIsCalled(w) ==
    [w EXCEPT !.job.is_stopped_ = TRUE, !.job.is_stopping_ = FALSE]

\* A delayed Quit bound to base::Unretained(this) instead of a weak pointer.
RunQuitTask_Unretained(w, valid) == Quit(w, "timer")

\* The delayed task of FlushJob, base::Bind(&PrintJob::Quit, weak pointer):
\* runs Quit only while the weak pointer is valid.
RunQuitTask(w, valid) ==
    IF valid THEN Quit(w, "timer") ELSE w

----------------------------------------------------------------------------
(* The state after PrintJob::PrintJob, held by one outside reference.      *)

NoDtor ==
    [ran |-> FALSE, pending |-> FALSE, canceling |-> FALSE, stopped |-> FALSE,
     alive |-> FALSE, outstanding |-> 0, thread |-> "none"]

Init ==
    /\ os_win \in BOOLEAN
    /\ job = [worker_set |-> FALSE, source_ |-> FALSE,
              document_ |-> NoDocument, settings_ |-> "cleared",
              is_job_pending_ |-> FALSE, is_canceling_ |-> FALSE,
              is_stopping_ |-> FALSE, is_stopped_ |-> FALSE,
              registered |-> FALSE, refs |-> 1, ext |-> 1,
              destroyed |-> FALSE]
    \* the worker the job will detach from its owner: its thread runs or not
    /\ worker \in [alive : BOOLEAN, printing : {FALSE}, queue : {<<>>},
                   cancel_calls : {0}]
    /\ pool = 0
    /\ loop = [queue |-> <<>>, timers |-> [valid |-> 0, dead |-> 0],
               depth |-> 0, quit |-> FALSE, quit_by |-> "none"]
    /\ bus = [t \in EventTypes |-> 0]
    /\ hist = [calls |-> 0, last |-> "Init", cancels |-> 0,
               job_done_after_cancel |-> FALSE,
               new_doc_seen |-> [pending |-> TRUE, posted |-> TRUE],
               canceled |-> FALSE, reentered |-> FALSE, submits |-> 0, bad_remove |-> FALSE,
               update_while_pending |-> FALSE, main_quit |-> FALSE,
               dtor |-> NoDtor, flush_by |-> "none",
               job_done_doc |-> NoDocument]

\* The step just taken, for the properties.
Mark(w, label) == [w EXCEPT !.hist.last = label]
MarkCall(w, label) == [w EXCEPT !.hist.last = label, !.hist.calls = @ + 1]

\* The UI thread is free to run a task: a Quit() ends the current run of
\* the loop before any further task.
CanRun == ~job.destroyed /\ ~loop.quit

\* A client holding a reference calls into the initialized job from a task
\* of the UI thread.
ClientCall ==
    /\ CanRun
    /\ job.worker_set
    /\ job.ext > 0
    /\ hist.calls < MaxCalls

----------------------------------------------------------------------------
(* Tasks of the UI thread.                                                 *)

CallInitialize ==
    /\ CanRun
    /\ job.ext > 0
    /\ ~job.worker_set
    /\ Commit(Mark(Initialize(World, NoInput), "Initialize"))

CallStartPrinting ==
    /\ ClientCall
    /\ \E in \in StartInputs :
          Commit(MarkCall(StartPrinting(World, in), "StartPrinting"))

CallStop ==
    /\ ClientCall
    /\ \E in \in Inputs : Commit(MarkCall(Stop(World, in), "Stop"))

CallCancel ==
    /\ ClientCall
    /\ \E in \in Inputs :
          Commit(MarkCall([Cancel(World, in) EXCEPT !.hist.canceled = TRUE],
                          "Cancel"))

\* PrintJob::FlushJob up to MessageLoop::current()->Run(): the self
\* reference, the delayed Quit bound to a weak pointer, the nested run.
FlushJob(w) ==
    [AddRef(w) EXCEPT !.loop.timers.valid = @ + 1,
                      !.loop.depth = @ + 1]

CallFlushJob ==
    /\ CanRun
    /\ job.ext > 0
    /\ hist.calls < MaxCalls
    /\ loop.depth < MaxFlushDepth
    /\ Commit(MarkCall(FlushJob(World), "FlushJob"))

\* PrintJob::FlushJob from the return of Run(): the nested run has been
\* quit, the call returns true and drops the self reference.
FlushJobReturn(w) ==
    Release([w EXCEPT !.loop.depth = @ - 1,
                      !.loop.quit = FALSE,
                      !.loop.quit_by = "none",
                      !.hist.flush_by = w.loop.quit_by], "ui")

ReturnFlushJob ==
    /\ loop.depth > 0
    /\ loop.quit
    /\ Commit(Mark(FlushJobReturn(World), "FlushJobReturn"))

\* The holder of the outside reference lets go of the job.
ReleaseRef ==
    /\ CanRun
    /\ job.ext > 0
    /\ Commit(Mark(ReleaseExternal(World), "ReleaseRef"))

\* One queued task of the UI loop runs and drops its reference.
RunTask(w, task, in) ==
    Release(CASE task.kind = "OnDocumentDone" -> OnDocumentDone(w, in)
              [] task.kind = "HoldUntilStopIsCalled" -> HoldUntilStopIsCalled(w)
              [] task.kind = "Notify" -> Notify(w, task.type, in),
            "ui")

LoopRun ==
    /\ CanRun
    /\ loop.queue # <<>>
    /\ \E in \in TaskInputs(Head(loop.queue)) :
          Commit(Mark(RunTask([World EXCEPT !.loop.queue = Tail(@)],
                              Head(loop.queue), in),
                      Head(loop.queue).kind))

\* A delayed Quit task of FlushJob comes due.
TimerFire ==
    /\ ~loop.quit
    /\ \/ /\ loop.timers.valid > 0
          /\ Commit(Mark(RunQuitTask([World EXCEPT !.loop.timers.valid = @ - 1],
                                     TRUE), "QuitTask"))
       \/ /\ loop.timers.dead > 0
          /\ Commit(Mark(RunQuitTask([World EXCEPT !.loop.timers.dead = @ - 1],
                                     FALSE), "DeadQuitTask"))

----------------------------------------------------------------------------
(* The worker pool and the worker thread.                                  *)

\* The pool runs PrintJobWorker::Stop (the thread is quit and joined) and
\* posts the reply, HoldUntilStopIsCalled, to the UI loop.
PoolStop(w) ==
    [WaitForThread(w) EXCEPT
        !.pool = @ - 1,
        !.loop.queue = Append(@, [kind |-> "HoldUntilStopIsCalled",
                                  type |-> "none"])]

PoolRun ==
    /\ pool > 0
    /\ Commit(Mark(PoolStop(World), "PoolStop"))

\* The worker thread runs its next task and drops the task's reference.
\* PrintJobWorker::StartPrinting starts spooling the task's document.
WorkerTask(w) ==
    ReleaseN([w EXCEPT !.worker.queue = Tail(@),
                       !.worker.printing =
                           IF Head(w.worker.queue).kind = "StartPrinting"
                           THEN Head(w.worker.queue).doc # NoDocument
                           ELSE @],
             IF Head(w.worker.queue).ref THEN 1 ELSE 0, "worker")

WorkerRun ==
    /\ worker.alive
    /\ job.worker_set
    /\ worker.queue # <<>>
    /\ Commit(Mark(WorkerTask(World), "WorkerTask"))

\* The spooling ends: the worker posts the notification of DOC_DONE or of
\* FAILED to the owner's loop, the task holding a reference to the owner.
WorkerNotify(w, type) ==
    PostToLoop([w EXCEPT !.worker.printing = FALSE],
               [kind |-> "Notify", type |-> type])

WorkerEmit ==
    /\ worker.alive
    /\ worker.printing
    /\ \E type \in {"DOC_DONE", "FAILED"} :
          Commit(Mark(WorkerNotify(World, type), "WorkerNotify"))

Next ==
    \/ CallInitialize
    \/ CallStartPrinting
    \/ CallStop
    \/ CallCancel
    \/ CallFlushJob
    \/ ReturnFlushJob
    \/ ReleaseRef
    \/ LoopRun
    \/ TimerFire
    \/ PoolRun
    \/ WorkerRun
    \/ WorkerEmit

Spec == Init /\ [][Next]_vars

\* The threads keep running: the UI loop runs its queued and its delayed
\* tasks and returns from a nested run that was quit, the pool runs what
\* was submitted to it, the worker thread runs its queue.  The client's
\* calls and the worker's notifications are not forced.
FairSpec ==
    /\ Spec
    /\ WF_vars(LoopRun)
    /\ WF_vars(TimerFire)
    /\ WF_vars(ReturnFlushJob)
    /\ WF_vars(PoolRun)
    /\ WF_vars(WorkerRun)

----------------------------------------------------------------------------
(* Properties.                                                             *)

\* A step that is a client's call of Cancel().
CancelStep == hist'.calls = hist.calls + 1 /\ hist'.last = "Cancel"

\* C1: in every reachable state is_job_pending_ and is_stopped_ are not both
\* true.
PendingStoppedExclusive == ~(job.is_job_pending_ /\ job.is_stopped_)

\* C2: once Cancel() has run, no JOB_DONE is published.
NoJobDoneAfterCancel == ~hist.job_done_after_cancel

\* C3: a DOC_DONE yields exactly one JOB_DONE, and once JOB_DONE is published
\* and is_stopped_ is true, is_job_pending_ is false.
DocDoneCompletes ==
    /\ bus["JOB_DONE"] <= 1
    /\ (bus["JOB_DONE"] > 0 /\ job.is_stopped_) => ~job.is_job_pending_

\* A client's call of Cancel() during which a further Cancel() was called.
CancelReentered == hist.last = "Cancel" /\ hist.reentered

\* C4: a Cancel() called while is_canceling_ is true does nothing: a client's
\* call of Cancel() publishes one FAILED, calls the worker's Cancel() at most
\* once, runs the body of Cancel() once, and leaves the job, the worker, the
\* pool, the loop and the bus as a call without any re-entry leaves them.
CancelReentryIgnored ==
    [][CancelStep =>
        /\ bus'["FAILED"] = bus["FAILED"] + 1
        /\ worker'.cancel_calls <= worker.cancel_calls + 1
        /\ hist'.cancels = hist.cancels + 1
        /\ \E in \in Inputs :
              /\ ~in.reenter /\ ~in.drain
              /\ job' = Cancel(World, in).job
              /\ worker' = Cancel(World, in).worker
              /\ pool' = Cancel(World, in).pool
              /\ loop' = Cancel(World, in).loop
              /\ bus' = Cancel(World, in).bus]_vars

\* C5: one call of Cancel() submits at most one PrintJobWorker::Stop to the
\* pool.
CancelSubmitsOneStop ==
    [][CancelStep => hist'.submits <= hist.submits + 1]_vars

\* C6: when FlushJob returns because Stop() quit its nested run, is_stopped_
\* is true.
FlushReturnsStopped ==
    (hist.last = "FlushJobReturn" /\ hist.flush_by = "stop") => job.is_stopped_

\* FlushJob has returned on Stop() while the reply of the pool is still to
\* come.
FlushReturnedByStop ==
    /\ hist.last = "FlushJobReturn"
    /\ hist.flush_by = "stop"
    /\ job.is_stopping_
    /\ ~job.is_stopped_

\* C6, amended: when FlushJob returns because Stop() quit its nested run,
\* Stop() has completed: the document is flushed, and is_job_pending_ is
\* cleared unless the worker thread was already gone.
FlushReturnsAfterStop ==
    (hist.last = "FlushJobReturn" /\ hist.flush_by = "stop") =>
        /\ job.document_ = NoDocument
        /\ job.is_job_pending_ => ~worker.alive

\* C7: every FlushJob returns, at the latest when its delayed Quit comes due:
\* once every delayed Quit task has come due, no FlushJob is still waiting in
\* its nested run.
FlushReturnsByTimeout ==
    (loop.timers.valid + loop.timers.dead = 0) => (loop.depth = 0 \/ loop.quit)

\* The liveness reading of C7, for FairSpec: a FlushJob that is waiting
\* eventually returns.
FlushJobReturns == (loop.depth > 0) ~> (loop.depth = 0)

\* A delayed Quit whose weak pointer is no longer valid has come due after
\* the job was destroyed.
DeadQuitTaskRan == hist.last = "DeadQuitTask" /\ job.destroyed

\* C8: a delayed Quit task whose weak pointer has been invalidated changes
\* nothing when it comes due: it quits no run of the loop and leaves the job,
\* the worker, the pool and the bus alone.
DeadQuitTaskInert ==
    [][loop'.timers.dead < loop.timers.dead =>
        /\ job' = job
        /\ worker' = worker
        /\ pool' = pool
        /\ bus' = bus
        /\ loop'.quit = loop.quit
        /\ loop'.depth = loop.depth
        /\ loop'.queue = loop.queue
        /\ loop'.timers.valid = loop.timers.valid
        /\ hist'.main_quit = hist.main_quit]_vars

Outstanding == Len(worker.queue) + Len(loop.queue) + pool

\* Every outside holder has let go while a PrintJobWorker::Stop is in the
\* pool.
OutstandingWithoutHolder == job.ext = 0 /\ ~job.destroyed /\ pool > 0

\* C10: the job is not destroyed while a task posted to the worker, a task
\* posted to the UI loop or the pool's reply is outstanding: each holds one
\* reference of the count.
HeldWhileOutstanding ==
    /\ hist.dtor.ran => hist.dtor.outstanding = 0
    /\ Outstanding > 0 => ~job.destroyed
    /\ ~job.destroyed => job.refs >= job.ext + Outstanding

\* The tasks of kind queued on the worker's loop.
Queued(q, kind) == Cardinality({i \in 1..Len(q) : q[i].kind = kind})

\* A step that is a client's call of StartPrinting() or of Stop().
StartStep == hist'.calls = hist.calls + 1 /\ hist'.last = "StartPrinting"
StopStep == hist'.calls = hist.calls + 1 /\ hist'.last = "Stop"

\* A step that delivers an event the worker posted to the UI loop.
Delivery(type) == hist'.last = "Notify" /\ bus'[type] = bus[type] + 1

\* A Cancel() has returned and the job lives on, its worker being shut down.
CancelReturned ==
    /\ hist.last = "Cancel"
    /\ hist.cancels > 0
    /\ ~job.destroyed
    /\ job.is_stopping_

\* C11: is_canceling_ is true only inside a call of Cancel(): it is false
\* whenever no handler is running on the UI thread, that is after every return
\* of Cancel() and before every task of the UI loop.
CancelingOnlyInsideCancel == ~job.is_canceling_

\* StartPrinting() has published NEW_DOC.
NewDocPublished ==
    /\ hist.last = "StartPrinting"
    /\ bus["NEW_DOC"] > 0
    /\ job.is_job_pending_

\* C12: when StartPrinting() publishes NEW_DOC, is_job_pending_ is already
\* true and PrintJobWorker::StartPrinting is already posted to the worker.
PendingBeforeNewDoc == hist.new_doc_seen.pending /\ hist.new_doc_seen.posted

InitializeLeavesWorker ==
    hist.last = "Initialize" =>
        /\ worker.queue = <<>>
        /\ worker.cancel_calls = 0
        /\ pool = 0

\* Initialize() has run on a worker whose thread is running.
InitializedRunningWorker ==
    /\ hist.last = "Initialize"
    /\ worker.alive
    /\ Len(worker.queue) = 1

\* C14, amended: Initialize() posts PrintJobWorker::OnDocumentChanged with the
\* new document to the worker's loop when the worker's thread is running, and
\* nothing when it is not; it calls no other operation of the worker, submits
\* nothing to the pool and publishes nothing.
InitializeSyncsDocument ==
    hist.last = "Initialize" =>
        /\ worker.queue =
              IF worker.alive
              THEN <<[kind |-> "OnDocumentChanged", doc |-> NewDocument,
                      ref |-> TRUE]>>
              ELSE <<>>
        /\ worker.cancel_calls = 0
        /\ pool = 0
        /\ bus = [t \in EventTypes |-> 0]
        /\ job.document_ = NewDocument
        /\ job.registered
        /\ job.refs >= job.ext + Len(worker.queue)

\* Stop() has been called on a job a Stop() had already shut down.
StoppedAgain == hist.last = "Stop" /\ hist.submits >= 2 /\ hist.cancels = 0

\* C15: UpdatePrintedDocument() called with the document that is current
\* changes nothing; a Stop() of a job whose document is already flushed posts
\* no PrintJobWorker::OnDocumentChanged and leaves the document flushed.
UpdateSameDocumentNoOp ==
    [][/\ \A in \in StartInputs :
             UpdatePrintedDocument(World, job.document_, in) = World
       /\ (StopStep /\ job.document_ = NoDocument) =>
             /\ Queued(worker'.queue, "OnDocumentChanged")
                   <= Queued(worker.queue, "OnDocumentChanged")
             /\ job'.document_ = NoDocument
             /\ hist'.cancels = hist.cancels =>
                   job'.settings_ = job.settings_]_vars

\* C16: when Stop() returns, is_job_pending_ is false and there is no
\* document, the worker's thread running or not when Stop() is called.
StopClearsPending ==
    (hist.last = "Stop" /\ ~job.destroyed) =>
        /\ ~job.is_job_pending_
        /\ job.document_ = NoDocument

\* The job has handled a FAILED of its worker, no Cancel() having run.
FailedHandled ==
    /\ hist.last = "Notify"
    /\ bus["FAILED"] > 0
    /\ hist.cancels = 0
    /\ job.settings_ = "cleared"
    /\ job.is_stopping_

\* C17: the delivery of a FAILED posted by the worker to the registered job
\* clears settings_ and runs Stop(): the settings are still cleared and the
\* document is flushed when the delivery ends, and unless an observer of the
\* notification calls Cancel() the worker's Cancel() is not called.
FailedClearsSettings ==
    [][(Delivery("FAILED") /\ job.registered) =>
          /\ job'.settings_ = "cleared"
          /\ job'.document_ = NoDocument
          /\ ~job'.is_job_pending_ \/ ~worker.alive
          /\ worker.alive => hist'.submits > hist.submits
          /\ hist'.cancels = hist.cancels =>
                worker'.cancel_calls = worker.cancel_calls]_vars

\* A DOC_DONE has been delivered to the registered job: OnDocumentDone waits
\* in the UI loop.
DocDoneDeferred ==
    /\ hist.last = "Notify"
    /\ bus["DOC_DONE"] > 0
    /\ loop.queue # <<>>
    /\ loop.queue[Len(loop.queue)].kind = "OnDocumentDone"

\* C18: the delivery of DOC_DONE changes no flag, document or registration of
\* the job and runs no Stop(); it queues OnDocumentDone on the UI loop.
\* JOB_DONE is published by that task only, after its Stop() has flushed the
\* document.
DocDoneIsDeferred ==
    [][/\ Delivery("DOC_DONE") =>
             /\ job'.is_job_pending_ = job.is_job_pending_
             /\ job'.is_canceling_ = job.is_canceling_
             /\ job'.is_stopping_ = job.is_stopping_
             /\ job'.is_stopped_ = job.is_stopped_
             /\ job'.document_ = job.document_
             /\ job'.settings_ = job.settings_
             /\ ~job'.destroyed => job'.registered = job.registered
             /\ worker' = worker
             /\ pool' = pool
             /\ hist'.submits = hist.submits
             /\ bus'["JOB_DONE"] = bus["JOB_DONE"]
             /\ loop'.quit = loop.quit
             /\ loop'.timers = loop.timers \/ job'.destroyed
             /\ loop'.queue =
                   IF job.registered
                   THEN Append(Tail(loop.queue),
                               [kind |-> "OnDocumentDone", type |-> "DOC_DONE"])
                   ELSE Tail(loop.queue)
       /\ bus'["JOB_DONE"] # bus["JOB_DONE"] =>
             /\ hist'.last = "OnDocumentDone"
             /\ bus'["JOB_DONE"] = bus["JOB_DONE"] + 1
             /\ hist'.job_done_doc = NoDocument
             /\ job'.document_ = NoDocument]_vars

\* Stop() has posted the flush of the document to the worker of a job that
\* was printing.
FlushPostedAfterStart ==
    /\ bus["NEW_DOC"] > 0
    /\ \E i \in 1..Len(worker.queue) :
          /\ worker.queue[i].kind = "OnDocumentChanged"
          /\ worker.queue[i].doc = NoDocument

\* C19: whenever UpdatePrintedDocument() posts the change of document to the
\* worker, is_job_pending_ is false.
UpdateOnlyWhenNotPending == ~hist.update_while_pending

\* C20: registrar_.Remove is never run while the job is not registered.
RemoveOnlyWhileRegistered == ~hist.bad_remove

====
